---- MODULE Spec2Model ----
(***************************************************************************)
(* A model of thrush/rrd.py: the process invocation layer (_rrdtool_impl   *)
(* and its RRDOutput wrapper), the fetch result, the value codec and the   *)
(* schema registry (RRDMeta).                                              *)
(*                                                                         *)
(* Text is modelled as a sequence of one-character strings; the empty      *)
(* string "" is what read(1) returns at end of file.                       *)
(***************************************************************************)
EXTENDS Integers, Sequences, FiniteSets, TLC

(***************************************************************************)
(* Bounds of the model.                                                    *)
(***************************************************************************)
\* capacity of each of the two pipes, in characters
PipeCap == 2
\* number of lines the child writes to its standard output, at most
MaxLines == 2
\* number of characters the child writes to its standard error, at most
MaxErr == 3
\* number of times the consumer starts an iteration of one result, at most
MaxIters == 2

(***************************************************************************)
(* Text helpers.                                                           *)
(***************************************************************************)
NL == "\n"

\* the sequences over S of length at most n
SeqsUpTo(S, n) == UNION {[1..k -> S] : k \in 0..n}

\* sep.join(list), on sequences of characters
RECURSIVE join(_, _)
join(sep, list) ==
    IF list = <<>> THEN <<>>
    ELSE IF Len(list) = 1 THEN list[1]
    ELSE list[1] \o sep \o join(sep, Tail(list))

\* the index of the first occurrence of c in text, 0 when there is none
RECURSIVE find(_, _)
find(text, c) ==
    IF text = <<>> THEN 0
    ELSE IF Head(text) = c THEN 1
    ELSE LET r == find(Tail(text), c) IN IF r = 0 THEN 0 ELSE r + 1

\* text[a:b] of Python, for 0 <= a <= b (b is cut to the length of text)
slice(text, a, b) ==
    LET e == IF b > Len(text) THEN Len(text) ELSE b
    IN  IF a >= e THEN <<>> ELSE SubSeq(text, a + 1, e)

(***************************************************************************)
(* The child process: what it writes, and its exit code.                   *)
(***************************************************************************)
\* the lines rrdtool prints: a blank line, a line holding an epoch (the
\* answer of first, or a header), and a line of the form <epoch>: <value>
BlankLine == <<>>
EpochLine == <<"1">>
RecordLine == <<"1", ":", " ", "1">>
LineKinds == {BlankLine, EpochLine, RecordLine}

\* the texts a child writes to standard output: lines separated by newlines,
\* with or without a newline after the last one
OutTexts ==
    {join(<<NL>>, ls) : ls \in SeqsUpTo(LineKinds, MaxLines)}
        \cup {join(<<NL>>, ls) \o <<NL>> : ls \in SeqsUpTo(LineKinds, MaxLines)}

\* the texts a child writes to standard error: some characters, then some
\* newlines
ErrTexts ==
    {[k \in 1..(i + j) |-> IF k <= i THEN "e" ELSE NL] :
        i \in 0..MaxErr, j \in 0..MaxErr} \cap SeqsUpTo({"e", NL}, MaxErr)

ExitCodes == {0, 1}

\* fetch stands for the streaming commands (fetch, lastupdate: wait=False),
\* update for the blocking commands without a result (create, update)
Commands == {"fetch", "update", "first"}

VARIABLES
    \* the invocation: [command, code, out, err]: the command run, the exit
    \* code of the child and the texts it writes; fixed by Popen
    proc,
    \* the child: what is left to write, and where it is
    outTodo, errTodo, childPc,
    \* the pipes: their content and whether the child's end is open
    outPipe, errPipe, outOpen, errOpen,
    \* the reader: position in the code, RRDOutput._unbuffered's locals
    pc, last, out,
    \* streams of the process object the reader has closed
    closed,
    \* what the consumer has seen: lines yielded by RRDOutput.__iter__, the
    \* exception raised, the value returned, iterations started, close() called
    yielded, error, result, iters, closeCalled,
    \* the record type being declared: its class body (attribute name -> kind
    \* of value), its _meta once RRDMeta.__new__ has run, the options of the
    \* last update, and whether the class exists
    attrs, meta, options, declared,
    \* one call of _convert_float: its arguments, its result, whether it ran
    unknown, value, converted, convertDone,
    \* the options of the last create
    created,
    \* one RRDFetchResult: the rows rrdtool printed, the lines of them the
    \* result has not read yet, and the records it has yielded
    rows, pending, records

childVars == <<outTodo, errTodo, childPc, outPipe, errPipe, outOpen, errOpen>>
readerVars == <<pc, last, out, closed, yielded, error, result, iters, closeCalled>>
streamVars == <<proc, childVars, readerVars>>

schemaVars == <<attrs, meta, options, declared, created>>
codecVars == <<unknown, value, converted, convertDone>>
parseVars == <<rows, pending, records>>
pureVars == <<schemaVars, codecVars, parseVars>>

vars == <<streamVars, schemaVars, codecVars, parseVars>>

NoError == [type |-> "none"]
NoResult == [type |-> "none"]

(***************************************************************************)
(* RRDOutput._unbuffered on a stream whose writer has exited: the lines it *)
(* yields when the stream holds text followed by end of file.              *)
(***************************************************************************)
RECURSIVE unbuffered_exited(_)
unbuffered_exited(text) ==
    IF text = <<>> THEN <<>>
    ELSE LET i == find(text, NL)
         IN  IF i = 0 THEN <<text>>
             ELSE <<slice(text, 0, i - 1)>> \o unbuffered_exited(slice(text, i, Len(text)))


(***************************************************************************)
(* The value codec and the line format of fetch.                           *)
(***************************************************************************)
Digits == {"0", "1", "2", "3", "4", "5", "6", "7", "8", "9"}

\* the number of leading characters of text that are digits
RECURSIVE leading_digits(_)
leading_digits(text) ==
    IF text = <<>> \/ Head(text) \notin Digits THEN 0
    ELSE 1 + leading_digits(Tail(text))

\* _fetch_re.match(line) is not None, for '[0-9]+: .+' (a line holds no
\* newline, so .+ asks for one more character)
fetch_re_match(line) ==
    LET n == leading_digits(line)
    IN  /\ n >= 1
        /\ Len(line) >= n + 3
        /\ line[n + 1] = ":"
        /\ line[n + 2] = " "

\* the lines of a sequence of lines for which RRDFetchResult.__iter__ yields
\* a record
record_lines(lines) == SelectSeq(lines, fetch_re_match)

(***************************************************************************)
(* The parts of the state a specification leaves alone.                    *)
(***************************************************************************)
NoMeta == [datasources |-> <<>>, datasources_list |-> <<>>, rras |-> <<>>,
           rras_index |-> <<>>, rras_list |-> <<>>]

SchemaIdle ==
    /\ attrs = <<>>
    /\ meta = NoMeta
    /\ options = <<>>
    /\ declared = FALSE
    /\ created = <<>>

ParseIdle ==
    /\ rows = <<>>
    /\ pending = <<>>
    /\ records = <<>>

CodecIdle ==
    /\ unknown = [type |-> "None"]
    /\ value = <<>>
    /\ converted = [type |-> "None"]
    /\ convertDone = FALSE

(***************************************************************************)
(* The state after Popen(...) in _rrdtool_impl.                            *)
(***************************************************************************)
wait_of(command) == command # "fetch"

StreamInit ==
    /\ proc \in [command : Commands, code : ExitCodes, out : OutTexts, err : ErrTexts]
    /\ outTodo = proc.out
    /\ errTodo = proc.err
    /\ childPc = "run"
    /\ outPipe = <<>>
    /\ errPipe = <<>>
    /\ outOpen = TRUE
    /\ errOpen = TRUE
    /\ pc = IF wait_of(proc.command) THEN "wait" ELSE "init_check"
    /\ last = ""
    /\ out = <<>>
    /\ closed = {}
    /\ yielded = <<>>
    /\ error = NoError
    /\ result = NoResult
    /\ iters = 0
    /\ closeCalled = FALSE
    /\ SchemaIdle
    /\ CodecIdle
    /\ ParseIdle

(***************************************************************************)
(* The child process (rrdtool under a shell).                              *)
(***************************************************************************)
\* the child writes the next character of its output to one of its streams
ChildWrite(s) ==
    /\ childPc = "run"
    /\ \/ /\ s = "stdout"
          /\ outOpen
          /\ outTodo # <<>>
          /\ Len(outPipe) < PipeCap
          /\ outPipe' = Append(outPipe, Head(outTodo))
          /\ outTodo' = Tail(outTodo)
          /\ UNCHANGED <<errPipe, errTodo>>
       \/ /\ s = "stderr"
          /\ errTodo # <<>>
          /\ Len(errPipe) < PipeCap
          /\ errPipe' = Append(errPipe, Head(errTodo))
          /\ errTodo' = Tail(errTodo)
          /\ UNCHANGED <<outPipe, outTodo>>
    /\ UNCHANGED <<childPc, outOpen, errOpen, proc, readerVars, pureVars>>

\* the child calls write on a stream whose pipe is full: it blocks in it
ChildBlock(s) ==
    /\ childPc = "run"
    /\ \/ s = "stdout" /\ outOpen /\ outTodo # <<>> /\ Len(outPipe) >= PipeCap
       \/ s = "stderr" /\ errTodo # <<>> /\ Len(errPipe) >= PipeCap
    /\ childPc' = IF s = "stdout" THEN "blocked_out" ELSE "blocked_err"
    /\ UNCHANGED <<outTodo, errTodo, outPipe, errPipe, outOpen, errOpen, proc, readerVars, pureVars>>

\* a blocked write goes on once the pipe has room
ChildUnblock ==
    /\ \/ /\ childPc = "blocked_out"
          /\ Len(outPipe) < PipeCap
          /\ outPipe' = Append(outPipe, Head(outTodo))
          /\ outTodo' = Tail(outTodo)
          /\ UNCHANGED <<errPipe, errTodo>>
       \/ /\ childPc = "blocked_err"
          /\ Len(errPipe) < PipeCap
          /\ errPipe' = Append(errPipe, Head(errTodo))
          /\ errTodo' = Tail(errTodo)
          /\ UNCHANGED <<outPipe, outTodo>>
    /\ childPc' = "run"
    /\ UNCHANGED <<outOpen, errOpen, proc, readerVars, pureVars>>

\* the child closes its standard output before it exits
ChildCloseOut ==
    /\ childPc \in {"run", "blocked_err"}
    /\ outOpen
    /\ outTodo = <<>>
    /\ outOpen' = FALSE
    /\ UNCHANGED <<outTodo, errTodo, childPc, outPipe, errPipe, errOpen, proc, readerVars, pureVars>>

\* the child exits: its ends of the pipes close, poll() returns its code
ChildExit ==
    /\ childPc = "run"
    /\ outTodo = <<>>
    /\ errTodo = <<>>
    /\ childPc' = "exited"
    /\ outOpen' = FALSE
    /\ errOpen' = FALSE
    /\ UNCHANGED <<outTodo, errTodo, outPipe, errPipe, proc, readerVars, pureVars>>

\* process.poll() is not None
Exited == childPc = "exited"

(***************************************************************************)
(* Exceptions.                                                             *)
(***************************************************************************)
RRDError(errorcode, message) ==
    [type |-> "RRDError", errorcode |-> errorcode, message |-> message]

\* reading a closed file object
ValueError == [type |-> "ValueError"]

\* looking up an attribute an object does not have
AttributeError == [type |-> "AttributeError"]


(***************************************************************************)
(* _rrdtool_impl and RRDOutput: the reader.                                *)
(***************************************************************************)
\* process.wait() of a blocking invocation returns once the child has exited
Wait ==
    /\ pc = "wait"
    /\ Exited
    /\ pc' = "init_check"
    /\ UNCHANGED <<last, out, closed, yielded, error, result, iters, closeCalled>>
    /\ UNCHANGED <<proc, childVars, pureVars>>

\* the check that takes text on standard error, not the exit code, for the
\* sign of a failure
check_stderr_on_text(at, ok, ko) ==
    /\ pc = at
    /\ IF Exited /\ errPipe # <<>> /\ "stderr" \notin closed
       THEN /\ pc' = ko
            /\ error' = RRDError(proc.code, join(<<NL>>, unbuffered_exited(errPipe)))
            /\ errPipe' = <<>>
            /\ closed' = closed \cup {"stderr"}
       ELSE /\ pc' = ok
            /\ UNCHANGED <<error, errPipe, closed>>
    /\ UNCHANGED <<last, out, yielded, result, iters, closeCalled>>
    /\ UNCHANGED <<proc, outTodo, errTodo, childPc, outPipe, outOpen, errOpen, pureVars>>

\* RRDOutput._check_stderr at position at: poll(), and when the code is not
\* None and not 0, raise RRDError with the lines of standard error; reading
\* them closes the stream (contextlib.closing). It goes on at ok or ends at ko.
check_stderr(at, ok, ko) ==
    /\ pc = at
    /\ IF Exited /\ proc.code # 0
       THEN /\ pc' = ko
            /\ IF "stderr" \in closed
               THEN /\ error' = ValueError
                    /\ UNCHANGED <<errPipe, closed>>
               ELSE /\ error' = RRDError(proc.code, join(<<NL>>, unbuffered_exited(errPipe)))
                    /\ errPipe' = <<>>
                    /\ closed' = closed \cup {"stderr"}
       ELSE /\ pc' = ok
            /\ UNCHANGED <<error, errPipe, closed>>
    /\ UNCHANGED <<last, out, yielded, result, iters, closeCalled>>
    /\ UNCHANGED <<proc, outTodo, errTodo, childPc, outPipe, outOpen, errOpen, pureVars>>

\* RRDOutput.__init__, called as _rrdtool_impl returns
InitCheck == check_stderr("init_check", "facade", "failed")

\* the names an RRDOutput object answers to
RRDOutputAttrs == {"process", "__init__", "_unbuffered", "_check_stderr", "__iter__", "close"}

\* _rrd_fetch, _rrd_last: wrap the stream in an RRDFetchResult
RrdFetchReturn ==
    /\ pc = "facade"
    /\ proc.command = "fetch"
    /\ pc' = "idle"
    /\ result' = [type |-> "RRDFetchResult"]
    /\ UNCHANGED <<last, out, closed, yielded, error, iters, closeCalled>>
    /\ UNCHANGED <<proc, childVars, pureVars>>

\* _rrd_create, _rrd_update: the stream is dropped, None is returned
RrdUpdateReturn ==
    /\ pc = "facade"
    /\ proc.command = "update"
    /\ pc' = "returned"
    /\ result' = [type |-> "None"]
    /\ UNCHANGED <<last, out, closed, yielded, error, iters, closeCalled>>
    /\ UNCHANGED <<proc, childVars, pureVars>>

\* locale.atoi on a text of digits; Invalid when it is no integer
Invalid == [type |-> "invalid"]

digit_value(c) == CHOOSE d \in 0..9 : <<"0", "1", "2", "3", "4", "5", "6", "7", "8", "9">>[d + 1] = c

RECURSIVE atoi_digits(_, _)
atoi_digits(text, acc) ==
    IF text = <<>> THEN acc
    ELSE atoi_digits(Tail(text), acc * 10 + digit_value(Head(text)))

\* _convert_from_timestamp: the datetime of an epoch given as text
convert_from_timestamp(timestamp) ==
    IF timestamp # <<>> /\ leading_digits(timestamp) = Len(timestamp)
    THEN [type |-> "datetime", epoch |-> atoi_digits(timestamp, 0)]
    ELSE Invalid

\* file.readline() on text: the first line with its newline
readline(text) ==
    LET i == find(text, NL) IN IF i = 0 THEN text ELSE slice(text, 0, i)

\* _rrd_first: stdout.readline()[:-1] on the object _rrdtool_impl returned
RrdFirstReturn ==
    /\ pc = "facade"
    /\ proc.command = "first"
    /\ IF "readline" \in RRDOutputAttrs
       THEN LET line == readline(outPipe)
                date == convert_from_timestamp(slice(line, 0, Len(line) - 1))
            IN  /\ outPipe' = slice(outPipe, Len(line), Len(outPipe))
                /\ IF date = Invalid
                   THEN pc' = "failed" /\ error' = ValueError /\ UNCHANGED result
                   ELSE pc' = "returned" /\ result' = date /\ UNCHANGED error
       ELSE /\ pc' = "failed"
            /\ error' = AttributeError
            /\ UNCHANGED <<result, outPipe>>
    /\ UNCHANGED <<last, out, closed, yielded, iters, closeCalled>>
    /\ UNCHANGED <<proc, outTodo, errTodo, childPc, errPipe, outOpen, errOpen, pureVars>>

(***************************************************************************)
(* The consumer of an RRDFetchResult.                                      *)
(***************************************************************************)
\* iter(result) and the first next(): RRDFetchResult.__iter__ starts
\* RRDOutput.__iter__
StartIter ==
    /\ pc \in {"idle", "done", "raised"}
    /\ iters < MaxIters
    /\ iters' = iters + 1
    /\ pc' = "iter_check"
    /\ error' = NoError
    /\ UNCHANGED <<last, out, closed, yielded, result, closeCalled>>
    /\ UNCHANGED <<proc, childVars, pureVars>>

\* RRDOutput.close, reached from RRDFetchResult.close and __exit__: pass
RRDOutput_close ==
    /\ UNCHANGED <<closed, outPipe, errPipe>>

\* result.close(), or leaving the with block: before the first record, between
\* two records or after the iteration
Close ==
    /\ pc \in {"idle", "suspended", "done", "raised"}
    /\ ~closeCalled
    /\ closeCalled' = TRUE
    /\ RRDOutput_close
    /\ UNCHANGED <<pc, last, out, yielded, error, result, iters>>
    /\ UNCHANGED <<proc, outTodo, errTodo, childPc, outOpen, errOpen, pureVars>>

\* next() on the iterator that yielded a record
Resume ==
    /\ pc = "suspended"
    /\ pc' = "L262"
    /\ UNCHANGED <<last, out, closed, yielded, error, result, iters, closeCalled>>
    /\ UNCHANGED <<proc, childVars, pureVars>>

(***************************************************************************)
(* RRDOutput.__iter__ and _unbuffered("stdout"), one step for each line of *)
(* the code that reads the pipe or polls the process.                      *)
(***************************************************************************)
\* line 289: self._check_stderr()
IterCheck == check_stderr("iter_check", "L262", "raised")

\* stream.read(1) at position at, with out holding buf: ValueError on a
\* closed file; it blocks on an empty pipe whose other end is open. A
\* character read is tested where it is read, since a test of a character
\* does not poll the process (last == "" is false, the and stops there):
\* a newline ends the line (line 267), any other character is appended
\* (line 271) and the next one is read (line 272). After "", read at end of
\* file, the code goes on at eof, where the process is polled.
read1(at, buf, eof) ==
    /\ pc = at
    /\ IF "stdout" \in closed
       THEN /\ pc' = "raised"
            /\ error' = ValueError
            /\ UNCHANGED <<last, out, outPipe>>
       ELSE /\ outPipe # <<>> \/ ~outOpen
            /\ last' = IF outPipe # <<>> THEN Head(outPipe) ELSE ""
            /\ outPipe' = IF outPipe # <<>> THEN Tail(outPipe) ELSE outPipe
            /\ pc' = IF outPipe = <<>> THEN eof
                     ELSE IF Head(outPipe) = NL THEN "L274" ELSE "L272"
            /\ out' = IF outPipe = <<>> \/ Head(outPipe) = NL THEN buf
                      ELSE Append(buf, Head(outPipe))
            /\ UNCHANGED error
    /\ UNCHANGED <<closed, yielded, result, iters, closeCalled>>
    /\ UNCHANGED <<proc, outTodo, errTodo, childPc, errPipe, outOpen, errOpen, pureVars>>

\* lines 261-262: out = []; last = stream.read(1)
ReadFirst == read1("L262", <<>>, "L264")

\* lines 264-265, after "" was read: with the process gone, leave the loop;
\* the with block closes the stream and the iteration ends
TestEnd ==
    /\ pc = "L264"
    /\ IF Exited
       THEN pc' = "done" /\ closed' = closed \cup {"stdout"}
       ELSE pc' = "L267" /\ UNCHANGED closed
    /\ UNCHANGED <<last, out, yielded, error, result, iters, closeCalled>>
    /\ UNCHANGED <<proc, childVars, pureVars>>

\* the loop that leaves at end of file without yielding the line it holds
TestLine_dropping ==
    /\ pc = "L267"
    /\ IF Exited
       THEN pc' = "done" /\ closed' = closed \cup {"stdout"}
       ELSE pc' = "L272" /\ UNCHANGED closed
    /\ UNCHANGED <<last, out, yielded, error, result, iters, closeCalled>>
    /\ UNCHANGED <<proc, childVars, pureVars>>

\* lines 267-271, after "" was read: with the process gone the line ends;
\* otherwise "" is appended (which leaves the joined line as it is: out holds
\* the joined line) and the stream is read again
TestLine ==
    /\ pc = "L267"
    /\ pc' = IF Exited THEN "L274" ELSE "L272"
    /\ UNCHANGED <<last, out, closed, yielded, error, result, iters, closeCalled>>
    /\ UNCHANGED <<proc, childVars, pureVars>>

\* line 272: last = stream.read(1)
ReadNext == read1("L272", out, "L267")

\* line 274 and RRDFetchResult.__iter__: the line is yielded; a line of the
\* form of a record goes to the consumer as a record, any other is skipped
Yield ==
    /\ pc = "L274"
    /\ yielded' = Append(yielded, out)
    /\ pc' = IF fetch_re_match(out) THEN "suspended" ELSE "L262"
    /\ UNCHANGED <<last, out, closed, error, result, iters, closeCalled>>
    /\ UNCHANGED <<proc, childVars, pureVars>>

StreamNext ==
    \/ \E s \in {"stdout", "stderr"} : ChildWrite(s)
    \/ \E s \in {"stdout", "stderr"} : ChildBlock(s)
    \/ ChildUnblock
    \/ ChildCloseOut
    \/ ChildExit
    \/ Wait
    \/ InitCheck
    \/ RrdFetchReturn
    \/ RrdUpdateReturn
    \/ RrdFirstReturn
    \/ StartIter
    \/ Close
    \/ Resume
    \/ IterCheck
    \/ ReadFirst
    \/ TestEnd
    \/ TestLine
    \/ ReadNext
    \/ Yield

Init == StreamInit
Next == StreamNext
Spec == Init /\ [][Next]_vars


\* the reader's steps of one iteration, the consumer asking for every record
IterStep ==
    \/ IterCheck
    \/ ReadFirst
    \/ TestEnd
    \/ TestLine
    \/ ReadNext
    \/ Yield
    \/ Resume

\* the reader is one sequential thread that runs whenever it is not blocked
\* in read(1), and the consumer of a for loop asks for the next record
FairSpec == Init /\ [][Next]_vars /\ WF_vars(IterStep)

(***************************************************************************)
(* Properties of the streaming and the blocking invocation.                *)
(***************************************************************************)
Streaming == ~wait_of(proc.command)
Blocking == wait_of(proc.command)

\* positions of a running iteration
IterPcs == {"iter_check", "L262", "L264", "L267", "L272", "L274", "suspended"}

\* C1: the iteration over the output of a streaming invocation never ends
\* normally when the exit code of the process is not 0 (it raises RRDError).
C1_NonZeroExitNeverEndsNormally ==
    (Streaming /\ pc = "done") => proc.code = 0

\* C2: once close() was called on the fetch result (or its with block was
\* left), no iteration yields a further record.
C2_NoRecordAfterClose ==
    [][closeCalled => record_lines(yielded') = record_lines(yielded)]_vars

\* the consumer waits in read(1) on standard output
ReaderBlockedOnStdout ==
    /\ pc \in {"L262", "L272"}
    /\ "stdout" \notin closed
    /\ outPipe = <<>>
    /\ outOpen

\* the child waits in write on standard error
ChildBlockedOnStderr == childPc = "blocked_err" /\ Len(errPipe) >= PipeCap

\* C3: in a streaming invocation the consumer is never blocked reading one
\* pipe while the child is blocked writing to the other one.
C3_NoDeadlock ==
    Streaming => ~(ReaderBlockedOnStdout /\ ChildBlockedOnStderr)

\* the characters after the last newline of text
RECURSIVE final_line(_)
final_line(text) ==
    LET i == find(text, NL)
    IN  IF i = 0 THEN text ELSE final_line(slice(text, i, Len(text)))

EndsMidLine(text) == text # <<>> /\ text[Len(text)] # NL

\* C4 (the final line): when the iteration has ended and the output ended in
\* the middle of a line, the last line yielded is that unterminated line.
C4_FinalLineYielded ==
    (Streaming /\ pc = "done" /\ EndsMidLine(proc.out)) =>
        /\ yielded # <<>>
        /\ yielded[Len(yielded)] = final_line(proc.out)

\* C4: line iteration terminates once the child has closed its standard
\* output and has exited, and an unterminated final line is yielded as a line
\* before the iteration ends.
C4_TerminatesAndYieldsFinalLine ==
    /\ [](C4_FinalLineYielded)
    /\ (Streaming /\ Exited /\ pc \in IterPcs) ~> (pc \in {"done", "raised"})

C4_Witness ==
    /\ Streaming
    /\ pc = "done"
    /\ proc.out = RecordLine \o <<NL>> \o EpochLine
    /\ yielded = <<RecordLine, EpochLine>>

\* C5: iterating a fetch result again, after an iteration consumed the stream
\* of an exit code 0 process to its end, raises no error (with exit code 0 the
\* first iteration cannot raise, so a second one follows one that ended).
C5_SecondIterationIsEmpty ==
    (Streaming /\ proc.code = 0 /\ iters >= 2) =>
        /\ error = NoError
        /\ pc # "raised"

\* the text without its final newline, if it ends in one
strip_final_newline(text) ==
    IF text # <<>> /\ text[Len(text)] = NL THEN SubSeq(text, 1, Len(text) - 1) ELSE text

\* _rrdtool_impl has returned or raised
ImplEnded == pc \in {"facade", "returned", "failed"}

C7_FirstReturnsTimestamp ==
    (/\ proc.command = "first"
     /\ proc.code = 0
     /\ proc.out = <<"1", NL>>
     /\ pc \in {"returned", "failed"}) =>
        /\ pc = "returned"
        /\ result = [type |-> "datetime", epoch |-> 1]


(***************************************************************************)
(* The schema registry: RRDMeta, and the arguments update builds from it.  *)
(***************************************************************************)
\* number of attributes in the body of a declared class, at most
MaxAttrs == 3

\* the longest ds-name rrdtool accepts
DsNameMax == 19

\* an attribute name one character longer than a ds-name can be
LongName == [i \in 1..(DsNameMax + 1) |-> "a"]

\* attribute names of class bodies; in ASCII order B < a < a_ < aa...a < b
AttrNames == {<<"a">>, <<"b">>, LongName, <<"B">>, <<"a", "_">>}

\* the values of a class body: a DataSource object, an RRA object, any other
Kinds == {"DataSource", "RRA", "other"}

\* ord(c), for the characters of the model
ord(c) ==
    CASE c = NL -> 10
      [] c = " " -> 32
      [] c = "'" -> 39
      [] c = "-" -> 45
      [] c = "." -> 46
      [] c \in Digits -> 48 + digit_value(c)
      [] c = ":" -> 58
      [] c = "B" -> 66
      [] c = "N" -> 78
      [] c = "U" -> 85
      [] c = "_" -> 95
      [] c = "a" -> 97
      [] c = "b" -> 98
      [] c = "e" -> 101
      [] c = "n" -> 110

\* a < b for two str objects: by the first character that differs
RECURSIVE str_lt(_, _)
str_lt(a, b) ==
    IF b = <<>> THEN FALSE
    ELSE IF a = <<>> THEN TRUE
    ELSE IF Head(a) = Head(b) THEN str_lt(Tail(a), Tail(b))
    ELSE ord(Head(a)) < ord(Head(b))

\* list with x inserted before the first element greater than x
RECURSIVE insert_sorted(_, _)
insert_sorted(list, x) ==
    IF list = <<>> THEN <<x>>
    ELSE IF str_lt(x, Head(list)) THEN <<x>> \o list
    ELSE <<Head(list)>> \o insert_sorted(Tail(list), x)

\* sorted(list), for a list of str
RECURSIVE sorted(_)
sorted(list) ==
    IF list = <<>> THEN <<>>
    ELSE insert_sorted(sorted(Tail(list)), Head(list))

\* the character is one of [a-zA-Z0-9_]
is_dsname_char(c) == c \in Digits \cup {"a", "b", "e", "n", "B", "N", "U", "_"}

\* _convert_to_dsname: the characters other than [a-zA-Z0-9_] removed, then
\* the first 19 characters
convert_to_dsname(name) == slice(SelectSeq(name, is_dsname_char), 0, DsNameMax)

\* d[k] = v for a dict d
put(d, k, v) == [x \in DOMAIN d \cup {k} |-> IF x = k THEN v ELSE d[x]]

\* RRDMeta.add_to_class on the _meta m: a DataSource gets its name and is
\* registered, an RRA is registered, anything else is only set on the class
add_to_class(m, name, kind) ==
    IF kind = "DataSource"
    THEN [m EXCEPT !.datasources = put(@, name, [kind |-> kind, name |-> convert_to_dsname(name)]),
                   !.datasources_list = Append(@, name)]
    ELSE IF kind = "RRA"
    THEN [m EXCEPT !.rras = put(@, name, [kind |-> kind]),
                   !.rras_list = Append(@, name)]
    ELSE m

\* lines 550-551: add_to_class for every item of the class body, in the
\* order attrs.items() gives them
RECURSIVE add_all(_, _, _)
add_all(m, body, order) ==
    IF order = <<>> THEN m
    ELSE add_all(add_to_class(m, Head(order), body[Head(order)]), body, Tail(order))

\* lines 556-559: every archive gets its position in rras_list as index
index_rras(m) ==
    [m EXCEPT !.rras_index = [n \in DOMAIN m.rras |-> find(m.rras_list, n) - 1],
              !.rras = [n \in DOMAIN m.rras |->
                           [kind |-> m.rras[n].kind, index |-> find(m.rras_list, n) - 1]]]

\* the registry as it was before the lists were sorted: an archive's index
\* is its position in the order of declaration
new_class_meta_unsorted(body, order) ==
    index_rras(add_all(NoMeta, body, order))

\* RRDMeta.__new__ for a class with the body given, whose items come in the
\* order given: the _meta of the new class
new_class_meta(body, order) ==
    LET m == add_all(NoMeta, body, order)
    IN  index_rras([m EXCEPT !.datasources_list = sorted(@), !.rras_list = sorted(@)])

\* the orders in which the items of a dict with the keys given can come
orders(keys) ==
    {o \in [1..Cardinality(keys) -> keys] : \A i, j \in DOMAIN o : o[i] = o[j] => i = j}

\* the decimal digits of a natural number: repr and str of an int
RECURSIVE int_to_str(_)
int_to_str(n) ==
    LET d == <<<<"0", "1", "2", "3", "4", "5", "6", "7", "8", "9">>[(n % 10) + 1]>>
    IN  IF n < 10 THEN d ELSE int_to_str(n \div 10) \o d

\* _convert_to_timestamp: a datetime becomes its epoch, and repr of what is
\* left (repr of a str is the str between quotes)
convert_to_timestamp(timeinfo) ==
    IF timeinfo.type = "datetime" THEN int_to_str(timeinfo.epoch)
    ELSE IF timeinfo.type = "int" THEN int_to_str(timeinfo.v)
    ELSE <<"'">> \o timeinfo.v \o <<"'">>

Timestamps ==
    {[type |-> "int", v |-> 0], [type |-> "int", v |-> 12],
     [type |-> "datetime", epoch |-> 10], [type |-> "str", v |-> <<"N">>]}

\* sample values given to update
Values == {0, 10}

\* the keyword arguments of update: values for some names
Kwargs ==
    UNION {[D -> Values] : D \in {E \in SUBSET AttrNames : Cardinality(E) <= MaxAttrs}}

\* the update that skips a field that was not given
update_data_skipping(list, kwargs) ==
    [i \in 1..Len(SelectSeq(list, LAMBDA ds : ds \in DOMAIN kwargs)) |->
        int_to_str(kwargs[SelectSeq(list, LAMBDA ds : ds \in DOMAIN kwargs)[i]])]

\* lines 398-401: for every name of the list, "U" or str of the value given
update_data(list, kwargs) ==
    [i \in 1..Len(list) |->
        IF list[i] \notin DOMAIN kwargs THEN <<"U">> ELSE int_to_str(kwargs[list[i]])]

\* _rrd_update: the options handed to the implementation
update_options(m, timestamp, kwargs) ==
    << <<"-", "-", "t", "e", "m", "p", "l", "a", "t", "e">>,
       join(<<":">>, m.datasources_list),
       <<"-", "-">>,
       join(<<":">>, <<convert_to_timestamp(timestamp)>> \o update_data(m.datasources_list, kwargs)) >>

NoCall == [called |-> FALSE]

StreamIdle ==
    /\ proc = [command |-> "none", code |-> 0, out |-> <<>>, err |-> <<>>]
    /\ outTodo = <<>>
    /\ errTodo = <<>>
    /\ childPc = "exited"
    /\ outPipe = <<>>
    /\ errPipe = <<>>
    /\ outOpen = FALSE
    /\ errOpen = FALSE
    /\ pc = "none"
    /\ last = ""
    /\ out = <<>>
    /\ closed = {}
    /\ yielded = <<>>
    /\ error = NoError
    /\ result = NoResult
    /\ iters = 0
    /\ closeCalled = FALSE

\* a class body is about to be turned into a class
SchemaInit ==
    /\ attrs \in UNION {[D -> Kinds] : D \in {E \in SUBSET AttrNames : Cardinality(E) <= MaxAttrs}}
    /\ meta = NoMeta
    /\ options = NoCall
    /\ declared = FALSE
    /\ created = NoCall
    /\ StreamIdle
    /\ CodecIdle
    /\ ParseIdle

\* class X(RRD): ...  RRDMeta.__new__ builds the class and its _meta
RRDMeta_new ==
    /\ ~declared
    /\ \E order \in orders(DOMAIN attrs) : meta' = new_class_meta(attrs, order)
    /\ declared' = TRUE
    /\ UNCHANGED <<attrs, options, created, streamVars, codecVars, parseVars>>

\* X(filename).update(timestamp, **kwargs): the options are built and handed
\* to the implementation (the invocation itself is the blocking invocation
\* of the process layer). The options depend on nothing an earlier update
\* left behind, so one update of each declared class is followed.
rrd_update ==
    /\ declared
    /\ ~options.called
    /\ \E timestamp \in Timestamps, kwargs \in Kwargs :
          options' = [called |-> TRUE, timestamp |-> timestamp, kwargs |-> kwargs,
                      args |-> update_options(meta, timestamp, kwargs)]
    /\ UNCHANGED <<attrs, meta, declared, created, streamVars, codecVars, parseVars>>

SchemaNext ==
    \/ RRDMeta_new
    \/ rrd_update

SchemaSpec == SchemaInit /\ [][SchemaNext]_vars

(***************************************************************************)
(* Properties of the schema registry and of update.                        *)
(***************************************************************************)
\* text.split(sep), for a separator of one character
RECURSIVE split(_, _)
split(text, sep) ==
    LET i == find(text, sep)
    IN  IF i = 0 THEN <<text>>
        ELSE <<slice(text, 0, i - 1)>> \o split(slice(text, i, Len(text)), sep)

\* the attribute names of the class body that hold a value of the kind
names_of(kind) == {n \in DOMAIN attrs : attrs[n] = kind}

\* the number of names of the set that sort before name
rank(name, names) == Cardinality({n \in names : str_lt(n, name)})

\* C9: the arguments of update are --template n1:n2:... -- ts:v1:v2:...,
\* where n1, n2, ... are the data-source names in sorted order and vi is the
\* value given for ni, or U when none was given; there are as many values as
\* names.
C9_UpdateTemplateAndValuesAligned ==
    (declared /\ options.called) =>
        LET names == IF names_of("DataSource") = {} THEN <<>> ELSE split(options.args[2], ":")
            data == split(options.args[4], ":")
        IN  /\ Len(options.args) = 4
            /\ options.args[1] = <<"-", "-", "t", "e", "m", "p", "l", "a", "t", "e">>
            /\ options.args[3] = <<"-", "-">>
            /\ Len(names) = Cardinality(names_of("DataSource"))
            /\ \A i \in 1..Len(names) :
                  /\ names[i] \in names_of("DataSource")
                  /\ rank(names[i], names_of("DataSource")) = i - 1
            /\ Len(data) = Len(names) + 1
            /\ data[1] = convert_to_timestamp(options.timestamp)
            /\ \A i \in 1..Len(names) :
                  data[i + 1] = IF names[i] \in DOMAIN options.kwargs
                                THEN int_to_str(options.kwargs[names[i]])
                                ELSE <<"U">>

C9_Witness ==
    /\ declared
    /\ options.called
    /\ names_of("DataSource") = {<<"a">>, <<"B">>, <<"b">>}
    /\ options.timestamp = [type |-> "int", v |-> 12]
    /\ DOMAIN options.kwargs = {<<"b">>, <<"B">>}
    /\ options.kwargs[<<"b">>] = 10
    /\ options.kwargs[<<"B">>] = 0
    /\ options.args[2] = <<"B", ":", "a", ":", "b">>
    /\ options.args[4] = <<"1", "2", ":", "0", ":", "U", ":", "1", "0">>

\* C10: once a record type is declared, the index of every archive is the
\* position of its attribute name among the sorted archive names, whatever
\* the order of declaration, and the indices are exactly 0..n-1.
C10_ArchiveIndexIsSortedPosition ==
    declared =>
        /\ DOMAIN meta.rras = names_of("RRA")
        /\ DOMAIN meta.rras_index = names_of("RRA")
        /\ \A n \in names_of("RRA") :
              /\ meta.rras[n].index = rank(n, names_of("RRA"))
              /\ meta.rras_index[n] = rank(n, names_of("RRA"))
        /\ {meta.rras[n].index : n \in names_of("RRA")} = 0..(Cardinality(names_of("RRA")) - 1)

C10_Witness ==
    /\ declared
    /\ names_of("RRA") = {<<"b">>, <<"a">>, <<"B">>}
    /\ meta.rras[<<"B">>].index = 0
    /\ meta.rras[<<"a">>].index = 1
    /\ meta.rras[<<"b">>].index = 2


(***************************************************************************)
(* The numeric parser of the value codec: _convert_float.                  *)
(***************************************************************************)
\* number of characters of a value text, at most
MaxValueLen == 3

\* the characters of value texts: of numbers, of nan, and of the U that
\* lastupdate prints for an unknown value
ValueChars == {"1", ".", "-", "n", "a", "U"}

ValueTexts == SeqsUpTo(ValueChars, MaxValueLen)

None == [type |-> "None"]
NaN == [type |-> "float", nan |-> TRUE]
Float(neg, digits, scale) ==
    [type |-> "float", nan |-> FALSE, neg |-> neg, digits |-> digits, scale |-> scale]
Raised(name) == [type |-> "raised", error |-> name]

\* the values of the parameter unknown: not given (None), or 0.0
Unknowns == {None, Float(FALSE, 0, 1)}

\* locale.atof in the C locale, which is float(text): an optional sign, then
\* nan, or digits with at most one point and at least one digit; the number
\* is digits / 10^scale. Anything else raises ValueError.
atof(text) ==
    LET neg == text # <<>> /\ Head(text) = "-"
        body == IF neg THEN Tail(text) ELSE text
        n == leading_digits(body)
        rest == slice(body, n, Len(body))
        frac == IF rest = <<>> THEN <<>> ELSE Tail(rest)
    IN  IF body = <<"n", "a", "n">> THEN NaN
        ELSE IF rest = <<>>
        THEN IF n >= 1 THEN Float(neg, atoi_digits(body, 0), 0) ELSE Raised("ValueError")
        ELSE IF Head(rest) = "." /\ leading_digits(frac) = Len(frac) /\ n + Len(frac) >= 1
        THEN Float(neg, atoi_digits(slice(body, 0, n) \o frac, 0), Len(frac))
        ELSE Raised("ValueError")

\* math.isnan
isnan(x) == x.type = "float" /\ x.nan

\* the parser without the substitution: what locale.atof gives or raises
convert_float_unsubstituted(default, text) == atof(text)

\* _convert_float(unknown, value): a text that does not parse counts as nan,
\* and nan becomes the value of unknown
convert_float(default, text) ==
    LET parsed == atof(text)
        number == IF parsed = Raised("ValueError") THEN NaN ELSE parsed
    IN  IF isnan(number) THEN default ELSE number

CodecInit ==
    /\ unknown \in Unknowns
    /\ value \in ValueTexts
    /\ converted = None
    /\ convertDone = FALSE
    /\ StreamIdle
    /\ SchemaIdle
    /\ ParseIdle

\* one value of a line of fetch is converted
Convert ==
    /\ ~convertDone
    /\ converted' = convert_float(unknown, value)
    /\ convertDone' = TRUE
    /\ UNCHANGED <<unknown, value, streamVars, schemaVars, parseVars>>

CodecNext == Convert

CodecSpec == CodecInit /\ [][CodecNext]_vars

(***************************************************************************)
(* Properties of the numeric parser.                                       *)
(***************************************************************************)
DigitTexts == SeqsUpTo(Digits \cap ValueChars, MaxValueLen)

\* the text is a decimal number: a sign or none, digits, and at most one
\* point among them
IsDecimal(text) ==
    \E sign \in {<<>>, <<"-">>}, ip \in DigitTexts, fp \in DigitTexts :
        \/ text = sign \o ip /\ ip # <<>>
        \/ text = sign \o ip \o <<".">> \o fp /\ ip \o fp # <<>>

\* C8 as stated: for the text nan and for a text that is no decimal number,
\* the parser returns the unknown default when one was configured and raises
\* ValueParseError when none was.
C8_DefaultOrValueParseError ==
    (convertDone /\ ~IsDecimal(value)) =>
        IF unknown # None THEN converted = unknown
        ELSE converted = Raised("ValueParseError")

\* C8 as amended: for the text nan and for a text that is no decimal number,
\* the parser returns the unknown default when one was configured, and
\* returns None, raising nothing, when none was.
C8_DefaultOrNone ==
    (convertDone /\ ~IsDecimal(value)) =>
        IF unknown # None THEN converted = unknown
        ELSE converted = None

C8_Witness ==
    /\ convertDone
    /\ unknown = None
    /\ value = <<"n", "a", "n">>
    /\ converted = None


(***************************************************************************)
(* The lines of the streaming wrapper against the text the child wrote.    *)
(***************************************************************************)
\* the newline-separated lines of a text: the pieces between its newlines,
\* where a newline that ends the text starts no further line
lines_written(text) ==
    LET pieces == split(text, NL)
    IN  IF pieces[Len(pieces)] = <<>> THEN SubSeq(pieces, 1, Len(pieces) - 1) ELSE pieces

\* C12: when the first iteration of a streaming invocation has ended, the
\* lines it yielded are exactly the newline-separated lines the child wrote,
\* whenever the child closed its standard output and whenever its exit
\* became observable; no line is lost, duplicated or invented.
C12_YieldedLinesAreWrittenLines ==
    (Streaming /\ pc = "done" /\ iters = 1) => yielded = lines_written(proc.out)


(***************************************************************************)
(* The result parser: RRDFetchResult on the lines of fetch or lastupdate.  *)
(***************************************************************************)
\* number of lines rrdtool prints for one fetch, at most
MaxRows == 2

\* the values rrdtool prints: a number, and nan for an unknown value
ValueItems ==
    {[text |-> <<"1", ".", "1">>, number |-> Float(FALSE, 11, 1)],
     [text |-> <<"n", "a", "n">>, number |-> NaN]}

\* the epochs of the rows
Epochs == {1, 12}

\* lines that are no rows: a blank line, the header with the names of the
\* data sources, and an epoch with no value
OtherLines == {<<>>, <<" ", "a", " ", "b">>, <<"1", "2", ":">>}

\* what rrdtool prints on a line: a row of one or two values at an epoch, or
\* one of the other lines
Rows ==
    [kind : {"row"}, epoch : Epochs,
     vals : {<<v>> : v \in ValueItems} \cup {<<v, w>> : v \in ValueItems, w \in ValueItems}]
    \cup [kind : {"other"}, text : OtherLines]

\* the line rrdtool prints for a row: <epoch>: <value> <value> ...
line_of(row) ==
    IF row.kind = "other" THEN row.text
    ELSE int_to_str(row.epoch) \o <<":", " ">>
         \o join(<<" ">>, [i \in DOMAIN row.vals |-> row.vals[i].text])

\* text.strip(): without the white space at its ends
RECURSIVE strip(_)
strip(text) ==
    IF text = <<>> THEN text
    ELSE IF Head(text) \in {" ", NL} THEN strip(Tail(text))
    ELSE IF text[Len(text)] \in {" ", NL} THEN strip(SubSeq(text, 1, Len(text) - 1))
    ELSE text

\* dict(zip(keys, list)): as many pairs as the shorter of the two has; of two
\* pairs with the same key the later one stays
zip_dict(keys, list) ==
    LET n == IF Len(keys) < Len(list) THEN Len(keys) ELSE Len(list)
    IN  [k \in {keys[i] : i \in 1..n} |->
            list[CHOOSE i \in 1..n : keys[i] = k /\ \A j \in 1..n : keys[j] = k => j <= i]]

\* RRDFetchResult.__init__: the ds-names of the names handed in
fetch_dsnames(names) == [i \in DOMAIN names |-> convert_to_dsname(names[i])]

\* lines 217-223: the record of a line that matches _fetch_re
fetch_record(dsnames, default, line) ==
    LET colon == find(line, ":")
        timestamp == slice(line, 0, colon - 1)
        values == slice(line, colon, Len(line))
        texts == split(strip(values), " ")
        converted_values == [i \in DOMAIN texts |-> convert_float(default, texts[i])]
    IN  [timestamp |-> convert_from_timestamp(timestamp),
         values |-> zip_dict(dsnames, converted_values)]

\* a fetch of a declared class has returned its RRDFetchResult, and rrdtool
\* has printed its rows
ParseInit ==
    /\ attrs \in UNION {[D -> {"DataSource"}] : D \in {E \in SUBSET AttrNames : Cardinality(E) <= MaxAttrs}}
    /\ meta = NoMeta
    /\ options = NoCall
    /\ declared = FALSE
    /\ created = NoCall
    /\ unknown \in Unknowns
    /\ value = <<>>
    /\ converted = None
    /\ convertDone = FALSE
    /\ rows \in SeqsUpTo(Rows, MaxRows)
    /\ pending = [i \in DOMAIN rows |-> line_of(rows[i])]
    /\ records = <<>>
    /\ StreamIdle

\* one turn of the loop of RRDFetchResult.__iter__: the next line of the
\* stream is skipped when it does not match, and yields a record otherwise
RRDFetchResult_iter ==
    /\ declared
    /\ pending # <<>>
    /\ pending' = Tail(pending)
    /\ records' = IF fetch_re_match(Head(pending))
                  THEN Append(records, fetch_record(fetch_dsnames(meta.datasources_list),
                                                    unknown, Head(pending)))
                  ELSE records
    /\ UNCHANGED <<rows, streamVars, schemaVars, codecVars>>

ParseNext ==
    \/ RRDMeta_new
    \/ RRDFetchResult_iter

ParseSpec == ParseInit /\ [][ParseNext]_vars

(***************************************************************************)
(* Properties of the result parser.                                        *)
(***************************************************************************)
\* the rows among what rrdtool printed, in the order printed
printed_rows == SelectSeq(rows, LAMBDA r : r.kind = "row")

\* the value a record holds for a value rrdtool printed
expected_value(item) == IF item.number = NaN THEN unknown ELSE item.number

\* the sorted list of the names of the declared data sources
sorted_names ==
    [i \in 1..Cardinality(names_of("DataSource")) |->
        CHOOSE n \in names_of("DataSource") : rank(n, names_of("DataSource")) = i - 1]

\* C11: when the result parser has read all lines, it has yielded one record
\* for every line of the form <epoch>: <value> <value> ..., in the order of
\* the lines and none for any other line; the record holds the time of the
\* epoch, and under the i-th name of the sorted data-source list the i-th
\* value of the line.
C11_OneRecordPerRowPairedByName ==
    (declared /\ pending = <<>>) =>
        /\ Len(records) = Len(printed_rows)
        /\ \A k \in 1..Len(printed_rows) :
              /\ records[k].timestamp = [type |-> "datetime", epoch |-> printed_rows[k].epoch]
              /\ \A i \in 1..Len(sorted_names) :
                    i <= Len(printed_rows[k].vals) =>
                        /\ sorted_names[i] \in DOMAIN records[k].values
                        /\ records[k].values[sorted_names[i]] = expected_value(printed_rows[k].vals[i])

\* the first DsNameMax characters of a name
first_chars(name) == SubSeq(name, 1, IF Len(name) < DsNameMax THEN Len(name) ELSE DsNameMax)

\* C11 with the key the parser uses: the record holds the i-th value of the
\* line under the first 19 characters of the i-th name of the sorted
\* data-source list, and holds nothing else; the rest is as above.
C11_OneRecordPerRowPairedByDsName ==
    (declared /\ pending = <<>>) =>
        /\ Len(records) = Len(printed_rows)
        /\ \A k \in 1..Len(printed_rows) :
              LET paired == {i \in 1..Len(sorted_names) : i <= Len(printed_rows[k].vals)}
              IN  /\ records[k].timestamp = [type |-> "datetime", epoch |-> printed_rows[k].epoch]
                  /\ DOMAIN records[k].values = {first_chars(sorted_names[i]) : i \in paired}
                  /\ \A i \in paired :
                        records[k].values[first_chars(sorted_names[i])]
                            = expected_value(printed_rows[k].vals[i])


(***************************************************************************)
(* The names of a data source in create, update and fetch.                 *)
(***************************************************************************)
\* the data sources of the model are Gauge(heartbeat=600): _DST, and repr of
\* the heartbeat and of the defaults 'U' of min and max
Gauge ==
    [DST |-> <<"G", "A", "U", "G", "E">>, heartbeat |-> <<"6", "0", "0">>,
     min |-> <<"'", "U", "'">>, max |-> <<"'", "U", "'">>]

\* the archives of the model are Average(xff=0.5, steps=1, rows=24)
Average ==
    [CF |-> <<"A", "V", "E", "R", "A", "G", "E">>, xff |-> <<"0", ".", "5">>,
     steps |-> <<"1">>, rows |-> <<"2", "4">>]

\* DataSource.__str__ of a data source that was given its name
DataSource_str(ds) ==
    join(<<":">>, <<<<"D", "S">>, ds.name, Gauge.DST, Gauge.heartbeat, Gauge.min, Gauge.max>>)

\* RRA.__repr__
RRA_repr(rra) ==
    join(<<":">>, <<<<"R", "R", "A">>, Average.CF, Average.xff, Average.steps, Average.rows>>)

\* the defaults of the parameters start and step of create
DefaultStart == [type |-> "str", v |-> <<"N">>]
DefaultStep == <<"3", "0", "0">>

\* _rrd_create: the options handed to the implementation
create_options(m, start, step, overwrite) ==
    << <<"-", "-", "s", "t", "a", "r", "t">>, convert_to_timestamp(start),
       <<"-", "-", "s", "t", "e", "p">>, step >>
    \o (IF ~overwrite
        THEN << <<"-", "-", "n", "o", "-", "o", "v", "e", "r", "w", "r", "i", "t", "e">> >>
        ELSE <<>>)
    \o [i \in DOMAIN m.datasources_list |-> DataSource_str(m.datasources[m.datasources_list[i]])]
    \o [i \in DOMAIN m.rras_list |-> RRA_repr(m.rras[m.rras_list[i]])]

\* the body of a record type: data sources and archives
FacadeInit ==
    /\ attrs \in UNION {[D -> {"DataSource", "RRA"}] :
                           D \in {E \in SUBSET AttrNames : Cardinality(E) <= MaxAttrs}}
    /\ meta = NoMeta
    /\ options = NoCall
    /\ declared = FALSE
    /\ created = NoCall
    /\ StreamIdle
    /\ CodecIdle
    /\ ParseIdle

\* X(filename).create(overwrite=...): the options are built and handed to
\* the implementation. They depend on nothing an earlier call left behind,
\* so one create of each declared class is followed.
rrd_create ==
    /\ declared
    /\ ~created.called
    /\ \E overwrite \in BOOLEAN :
          created' = [called |-> TRUE, overwrite |-> overwrite,
                      args |-> create_options(meta, DefaultStart, DefaultStep, overwrite)]
    /\ UNCHANGED <<attrs, meta, options, declared, streamVars, codecVars, parseVars>>

FacadeNext ==
    \/ RRDMeta_new
    \/ rrd_create
    \/ rrd_update

FacadeSpec == FacadeInit /\ [][FacadeNext]_vars

(***************************************************************************)
(* Properties of the names.                                                *)
(***************************************************************************)
\* the DS directives among the options of create, in their order
ds_directives ==
    SelectSeq(created.args, LAMBDA a : Len(a) >= 3 /\ SubSeq(a, 1, 3) = <<"D", "S", ":">>)

\* C13: once a record type is declared, created and updated, every data
\* source has one name: the name in the i-th DS directive of create is the
\* i-th name of the template of update, is the key of the i-th value in the
\* records of fetch, and is the keyword under which update took the i-th
\* value it sent.
C13_OneNamePerDataSource ==
    (declared /\ created.called /\ options.called) =>
        /\ Len(ds_directives) = Cardinality(names_of("DataSource"))
        /\ \A i \in 1..Len(ds_directives) :
              LET create_name == split(ds_directives[i], ":")[2]
                  template_name == split(options.args[2], ":")[i]
                  fetch_key == fetch_dsnames(meta.datasources_list)[i]
                  sent == split(options.args[4], ":")[i + 1]
              IN  /\ create_name = template_name
                  /\ create_name = fetch_key
                  /\ sent # <<"U">> =>
                        /\ create_name \in DOMAIN options.kwargs
                        /\ sent = int_to_str(options.kwargs[create_name])

====
